---- MODULE Spec2Model ----
(***************************************************************************)
(* Selective-Repeat sender (A) and receiver (B) of src/sr.c, driven by the *)
(* network emulator's events: A_output, A_input, A_timerinterrupt and      *)
(* B_input.  Each handler runs to completion; the channel (tolayer3) may   *)
(* lose or corrupt a packet and keeps the order of what it delivers.       *)
(* The statistics counters of the emulator (total_ACKs_received, new_ACKs, *)
(* packets_resent, packets_received) and expectedseqnum, which no handler  *)
(* reads, are left out; window_full is kept as the effect `full`.          *)
(***************************************************************************)
EXTENDS Integers, Sequences, FiniteSets, TLC

(* ------------------------------ constants ------------------------------ *)
WINDOWSIZE == 6
SEQSPACE == 7
NOTINUSE == -1
PAYLOADLEN == 20
\* the value the emulator writes over a header field it corrupts; also
\* stands for an indeterminate int outside the sequence space
BADVALUE == 999999
\* the character '0' that fills an acknowledgement's payload
ACKFILL == 48

(* ------------------------------- bounds -------------------------------- *)
\* number of messages A_output takes from layer 5
MaxMsgs == 8
\* the same where TRACE is 0 and B acknowledges with indeterminate numbers
MaxMsgsJunk == 5
\* packets in flight per direction
MaxChan == 1

\* values of the emulator's TRACE global the handlers distinguish
TraceLevels == {0, 1}

SeqNums == 0 .. (SEQSPACE - 1)
Slots == 0 .. (WINDOWSIZE - 1)

\* C's % on ints truncates towards zero
CRem(a, n) == IF a >= 0 THEN a % n ELSE -((-a) % n)

\* a packet whose 20 payload bytes all equal `payload`
Pkt(s, a, c, d) == [seqnum |-> s, acknum |-> a, checksum |-> c, payload |-> d]
\* static storage is zero-initialised
ZeroPkt == Pkt(0, 0, 0, 0)

ComputeChecksum(packet) ==
  packet.seqnum + packet.acknum + PAYLOADLEN * packet.payload

\* a checksum test that passes every packet
IsCorruptedNever(packet) == FALSE

IsCorrupted(packet) == packet.checksum # ComputeChecksum(packet)

\* the channel overwrites the sequence number and leaves the checksum
Corrupt(packet) == [packet EXCEPT !.seqnum = BADVALUE]

VARIABLES
  buffer, acked, windowbase, A_nextseqnum, windowcount, oldest_unacked,
  in_window, timer,
  recv_buffer, received, B_windowbase, B_nextseqnum, already_received,
  TRACE, AtoB, BtoA,
  accepted, delivered, built

avars == <<buffer, acked, windowbase, A_nextseqnum, windowcount,
           oldest_unacked, in_window, timer>>
bvars == <<recv_buffer, received, B_windowbase, B_nextseqnum,
           already_received>>
vars == <<buffer, acked, windowbase, A_nextseqnum, windowcount,
          oldest_unacked, in_window, timer,
          recv_buffer, received, B_windowbase, B_nextseqnum,
          already_received, TRACE, AtoB, BtoA,
          accepted, delivered, built>>

(* ------------------------- effects of a handler ------------------------ *)
\* what one handler invocation did to its environment: packets handed to
\* tolayer3, payloads handed to tolayer5, timer calls, and whether a timer
\* call was made in a state the emulator does not support
NoEffect == [tx |-> <<>>, up |-> <<>>, starts |-> 0, stops |-> 0,
             fault |-> FALSE, full |-> 0]

\* the sender's variables and the effects so far, as one value
Sender == [buffer |-> buffer, acked |-> acked, windowbase |-> windowbase,
           A_nextseqnum |-> A_nextseqnum, windowcount |-> windowcount,
           oldest_unacked |-> oldest_unacked, in_window |-> in_window,
           timer |-> timer, eff |-> NoEffect]

Receiver == [recv_buffer |-> recv_buffer, received |-> received,
             B_windowbase |-> B_windowbase, B_nextseqnum |-> B_nextseqnum,
             already_received |-> already_received, eff |-> NoEffect]

starttimer(s) ==
  [s EXCEPT !.timer = TRUE,
            !.eff.starts = @ + 1,
            !.eff.fault = @ \/ s.timer]

stoptimer(s) ==
  [s EXCEPT !.timer = FALSE,
            !.eff.stops = @ + 1,
            !.eff.fault = @ \/ ~s.timer]

tolayer3(s, packet) == [s EXCEPT !.eff.tx = Append(@, packet)]

tolayer5(r, data) == [r EXCEPT !.eff.up = Append(@, data)]

(* ------------------------------- sender -------------------------------- *)
SetMin(S) == CHOOSE x \in S : \A y \in S : x <= y

find_oldest_unacked(s) ==
  LET cand == {i \in 0 .. (s.windowcount - 1) :
                 LET seq == (s.windowbase + i) % SEQSPACE
                 IN  ~s.acked[seq % WINDOWSIZE] /\ s.in_window[seq]}
  IN  [s EXCEPT !.oldest_unacked =
         IF cand = {} THEN -1
         ELSE (s.windowbase + SetMin(cand)) % SEQSPACE]

\* slot of the window arrays used for a sequence number
SlotOf(seq) == seq % WINDOWSIZE

\* A_output: the packet built for a message
MakeDataPkt(seq, data) ==
  LET p == Pkt(seq, NOTINUSE, 0, data)
  IN  [p EXCEPT !.checksum = ComputeChecksum(p)]

\* A_output with a window test that lets one packet too many in
A_outputOpOffByOne(s, data) ==
  IF s.windowcount <= WINDOWSIZE
  THEN LET sendpkt == MakeDataPkt(s.A_nextseqnum, data)
           index == SlotOf(s.A_nextseqnum)
           s1 == [s EXCEPT !.buffer[index] = sendpkt,
                           !.acked[index] = FALSE,
                           !.in_window[s.A_nextseqnum] = TRUE,
                           !.windowcount = @ + 1]
           s2 == tolayer3(s1, sendpkt)
           s3 == IF s2.oldest_unacked = -1
                 THEN starttimer([s2 EXCEPT !.oldest_unacked = s.A_nextseqnum])
                 ELSE s2
       IN  [s3 EXCEPT !.A_nextseqnum = (s.A_nextseqnum + 1) % SEQSPACE]
  ELSE [s EXCEPT !.eff.full = @ + 1]

A_outputOp(s, data) ==
  IF s.windowcount < WINDOWSIZE
  THEN LET sendpkt == MakeDataPkt(s.A_nextseqnum, data)
           index == SlotOf(s.A_nextseqnum)
           s1 == [s EXCEPT !.buffer[index] = sendpkt,
                           !.acked[index] = FALSE,
                           !.in_window[s.A_nextseqnum] = TRUE,
                           !.windowcount = @ + 1]
           s2 == tolayer3(s1, sendpkt)
           s3 == IF s2.oldest_unacked = -1
                 THEN starttimer([s2 EXCEPT !.oldest_unacked = s.A_nextseqnum])
                 ELSE s2
       IN  [s3 EXCEPT !.A_nextseqnum = (s.A_nextseqnum + 1) % SEQSPACE]
  ELSE [s EXCEPT !.eff.full = @ + 1]

\* a window test that leaves the window base out
AckInWindowStrict(s, acknum) ==
  LET wlast == CRem(s.windowbase + s.windowcount - 1, SEQSPACE)
  IN  \/ /\ s.windowbase <= wlast
         /\ acknum > s.windowbase /\ acknum <= wlast
      \/ /\ s.windowbase > wlast
         /\ (acknum > s.windowbase \/ acknum <= wlast)

\* the test "ACK is within current window" of A_input
AckInWindow(s, acknum) ==
  LET wlast == CRem(s.windowbase + s.windowcount - 1, SEQSPACE)
  IN  \/ /\ s.windowbase <= wlast
         /\ acknum >= s.windowbase /\ acknum <= wlast
      \/ /\ s.windowbase > wlast
         /\ (acknum >= s.windowbase \/ acknum <= wlast)

\* marking the slot of the window base instead of the acknowledged packet's
MarkAckedBase(s, acknum) == [s EXCEPT !.acked[SlotOf(s.windowbase)] = TRUE]

\* the slot A_input marks for an acknowledgement
MarkAcked(s, acknum) == [s EXCEPT !.acked[SlotOf(acknum)] = TRUE]

RECURSIVE Slide(_)
Slide(s) ==
  IF /\ s.windowcount > 0
     /\ s.acked[SlotOf(s.windowbase)]
     /\ s.in_window[s.windowbase]
  THEN Slide([s EXCEPT !.in_window[s.windowbase] = FALSE,
                       !.windowbase = (s.windowbase + 1) % SEQSPACE,
                       !.windowcount = @ - 1])
  ELSE s

\* in_window[acknum]; outside the array the read is indeterminate (oob)
ReadInWindow(s, acknum, oob) ==
  IF acknum \in SeqNums THEN s.in_window[acknum] ELSE oob

\* A_input that stops the timer and does not start it for the next packet
A_inputOpNoRestart(s, packet, oob) ==
  IF ~IsCorrupted(packet)
  THEN IF AckInWindow(s, packet.acknum)
       THEN IF /\ ~s.acked[SlotOf(packet.acknum)]
               /\ ReadInWindow(s, packet.acknum, oob)
            THEN LET s1 == MarkAcked(s, packet.acknum)
                     s2 == IF packet.acknum = s1.oldest_unacked
                           THEN find_oldest_unacked(stoptimer(s1))
                           ELSE s1
                 IN  Slide(s2)
            ELSE s
       ELSE s
  ELSE s

A_inputOp(s, packet, oob) ==
  IF ~IsCorrupted(packet)
  THEN IF AckInWindow(s, packet.acknum)
       THEN IF /\ ~s.acked[SlotOf(packet.acknum)]
               /\ ReadInWindow(s, packet.acknum, oob)
            THEN LET s1 == MarkAcked(s, packet.acknum)
                     s2 == IF packet.acknum = s1.oldest_unacked
                           THEN LET t == find_oldest_unacked(stoptimer(s1))
                                IN  IF t.oldest_unacked # -1
                                    THEN starttimer(t) ELSE t
                           ELSE s1
                 IN  Slide(s2)
            ELSE s
       ELSE s
  ELSE s

\* A_timerinterrupt that resends without starting the timer again
A_timerinterruptOpNoRestart(s0) ==
  LET s == [s0 EXCEPT !.timer = FALSE]
  IN  IF s.oldest_unacked # -1
      THEN LET index == SlotOf(s.oldest_unacked)
           IN  IF ~s.acked[index] /\ s.in_window[s.oldest_unacked]
               THEN tolayer3(s, s.buffer[index])
               ELSE LET t == find_oldest_unacked(s)
                    IN  IF t.oldest_unacked # -1 THEN starttimer(t) ELSE t
      ELSE s

\* the emulator clears the timer before it calls the handler
A_timerinterruptOp(s0) ==
  LET s == [s0 EXCEPT !.timer = FALSE]
  IN  IF s.oldest_unacked # -1
      THEN LET index == SlotOf(s.oldest_unacked)
           IN  IF ~s.acked[index] /\ s.in_window[s.oldest_unacked]
               THEN starttimer(tolayer3(s, s.buffer[index]))
               ELSE LET t == find_oldest_unacked(s)
                    IN  IF t.oldest_unacked # -1 THEN starttimer(t) ELSE t
      ELSE s

(* ------------------------------ receiver ------------------------------- *)
\* the test "packet falls within the receive window" of B_input
SeqInWindow(r, seqnum) ==
  LET wlast == (r.B_windowbase + WINDOWSIZE - 1) % SEQSPACE
  IN  \/ /\ r.B_windowbase <= wlast
         /\ seqnum >= r.B_windowbase /\ seqnum <= wlast
      \/ /\ r.B_windowbase > wlast
         /\ (seqnum >= r.B_windowbase \/ seqnum <= wlast)

\* the do-while that delivers the base packet and the buffered run after it
RECURSIVE Deliver(_)
Deliver(r) ==
  LET r1 == tolayer5(r, r.recv_buffer[SlotOf(r.B_windowbase)].payload)
      r2 == [r1 EXCEPT !.received[SlotOf(r.B_windowbase)] = FALSE,
                       !.B_windowbase = (r.B_windowbase + 1) % SEQSPACE]
  IN  IF r2.received[SlotOf(r2.B_windowbase)] THEN Deliver(r2) ELSE r2

\* the acknowledgement B_input builds and sends
SendAck(r, acknum) ==
  LET p == Pkt(r.B_nextseqnum, acknum, 0, ACKFILL)
      sendpkt == [p EXCEPT !.checksum = ComputeChecksum(p)]
  IN  tolayer3([r EXCEPT !.B_nextseqnum = (r.B_nextseqnum + 1) % 2], sendpkt)

\* `junk` is the value of sendpkt.acknum where the handler reads it without
\* having assigned it
B_inputOp(r, packet, trace, junk) ==
  IF ~IsCorrupted(packet)
  THEN IF SeqInWindow(r, packet.seqnum)
       THEN LET index == SlotOf(packet.seqnum)
                r1 == IF ~r.received[index]
                      THEN LET q == [r EXCEPT
                                       !.received[index] = TRUE,
                                       !.recv_buffer[index] = packet,
                                       !.already_received[packet.seqnum] = TRUE]
                           IN  IF packet.seqnum = q.B_windowbase
                               THEN Deliver(q) ELSE q
                      ELSE r
            IN  SendAck(r1, packet.seqnum)
       ELSE SendAck(r, IF trace > 0 THEN packet.seqnum ELSE junk)
  ELSE IF trace > 0 THEN r ELSE SendAck(r, junk)

\* values an unassigned sendpkt.acknum is given: every sequence number and
\* one int above the sequence space (a negative value, which A_input would
\* use to index before its arrays, is not followed)
Junk == SeqNums \cup {BADVALUE}

(* ------------------------------- channel ------------------------------- *)
\* tolayer3 of the emulator: the packets a handler sent join the queue of
\* their direction; a packet that finds the queue full is lost
Channel(q, tx) ==
  IF tx # <<>> /\ Len(q) < MaxChan THEN Append(q, tx[1]) ELSE q

\* what arrives when the head of a queue is delivered: the packet as sent,
\* or the packet with a field overwritten
Arrivals(q) == {Head(q), Corrupt(Head(q))}

\* messages A takes in a run
Budget == IF TRACE = 0 THEN MaxMsgsJunk ELSE MaxMsgs

(* -------------------------------- Init --------------------------------- *)
Init ==
  /\ buffer = [i \in Slots |-> ZeroPkt]
  /\ acked = [i \in Slots |-> FALSE]
  /\ windowbase = 0
  /\ A_nextseqnum = 0
  /\ windowcount = 0
  /\ oldest_unacked = -1
  /\ in_window = [i \in SeqNums |-> FALSE]
  /\ timer = FALSE
  /\ recv_buffer = [i \in Slots |-> ZeroPkt]
  /\ received = [i \in Slots |-> FALSE]
  /\ B_windowbase = 0
  /\ B_nextseqnum = 1
  /\ already_received = [i \in SeqNums |-> FALSE]
  /\ TRACE \in TraceLevels
  /\ AtoB = <<>>
  /\ BtoA = <<>>
  /\ accepted = <<>>
  /\ delivered = <<>>
  /\ built = [i \in SeqNums |-> 0]

SetSender(s) ==
  /\ buffer' = s.buffer
  /\ acked' = s.acked
  /\ windowbase' = s.windowbase
  /\ A_nextseqnum' = s.A_nextseqnum
  /\ windowcount' = s.windowcount
  /\ oldest_unacked' = s.oldest_unacked
  /\ in_window' = s.in_window
  /\ timer' = s.timer

SetReceiver(r) ==
  /\ recv_buffer' = r.recv_buffer
  /\ received' = r.received
  /\ B_windowbase' = r.B_windowbase
  /\ B_nextseqnum' = r.B_nextseqnum
  /\ already_received' = r.already_received

(* ------------------------------- actions ------------------------------- *)
\* layer 5 hands A a message: 20 bytes that all hold the number of the
\* message among those A has taken (a message A rejects is offered again)
A_output ==
  /\ Len(accepted) < Budget \/ windowcount = WINDOWSIZE
  /\ LET data == Len(accepted) + 1
         s == A_outputOp(Sender, data)
     IN  /\ SetSender(s)
         /\ AtoB' = Channel(AtoB, s.eff.tx)
         /\ accepted' = IF s.eff.tx # <<>> THEN Append(accepted, data)
                        ELSE accepted
         /\ built' = IF s.eff.tx # <<>>
                     THEN [built EXCEPT ![A_nextseqnum] = data]
                     ELSE built
  /\ UNCHANGED <<bvars, TRACE, BtoA, delivered>>

\* an acknowledgement arrives at A as `packet`
A_inputOf(packet) ==
  /\ \E oob \in BOOLEAN :
       LET s == A_inputOp(Sender, packet, oob)
       IN  /\ (packet.acknum \in SeqNums => oob)
           /\ SetSender(s)
  /\ BtoA' = Tail(BtoA)
  /\ UNCHANGED <<bvars, TRACE, AtoB, accepted, delivered, built>>

\* the packet at the head of B's queue to A arrives, intact or corrupted
A_input ==
  /\ BtoA # <<>>
  /\ \E packet \in Arrivals(BtoA) : A_inputOf(packet)

A_timerinterrupt ==
  /\ timer
  /\ LET s == A_timerinterruptOp(Sender)
     IN  /\ SetSender(s)
         /\ AtoB' = Channel(AtoB, s.eff.tx)
  /\ UNCHANGED <<bvars, TRACE, BtoA, accepted, delivered, built>>

\* a data packet arrives at B as `packet`
B_inputOf(packet) ==
  /\ \E junk \in Junk :
       LET r == B_inputOp(Receiver, packet, TRACE, junk)
           junkRead == TRACE = 0 /\
                       (IsCorrupted(packet) \/ ~SeqInWindow(Receiver, packet.seqnum))
       IN  /\ (~junkRead => junk = 0)
           /\ SetReceiver(r)
           /\ BtoA' = Channel(BtoA, r.eff.tx)
           /\ delivered' = delivered \o r.eff.up
  /\ AtoB' = Tail(AtoB)
  /\ UNCHANGED <<avars, TRACE, accepted, built>>

\* the packet at the head of A's queue to B arrives, intact or corrupted
B_input ==
  /\ AtoB # <<>>
  /\ \E packet \in Arrivals(AtoB) : B_inputOf(packet)

\* the channel loses the packet at the head of a queue
LoseAtoB ==
  /\ AtoB # <<>>
  /\ AtoB' = Tail(AtoB)
  /\ UNCHANGED <<avars, bvars, TRACE, BtoA, accepted, delivered, built>>

LoseBtoA ==
  /\ BtoA # <<>>
  /\ BtoA' = Tail(BtoA)
  /\ UNCHANGED <<avars, bvars, TRACE, AtoB, accepted, delivered, built>>

Next ==
  \/ A_output
  \/ A_input
  \/ A_timerinterrupt
  \/ B_input
  \/ LoseAtoB
  \/ LoseBtoA

Spec == Init /\ [][Next]_vars

\* the timer that runs goes off, and a queue that is filled again and again
\* delivers a packet intact
FairSpec ==
  /\ Spec
  /\ WF_vars(A_timerinterrupt)
  /\ SF_vars(AtoB # <<>> /\ B_inputOf(Head(AtoB)))
  /\ SF_vars(BtoA # <<>> /\ A_inputOf(Head(BtoA)))

(* --------------------------- the sender alone -------------------------- *)
\* acknowledgements as B_input builds them for the numbers `nums`, as sent
\* and as corrupted by the channel
AcksFor(nums) ==
  LET sent == {SendAck([Receiver EXCEPT !.B_nextseqnum = b], a).eff.tx[1] :
                 b \in {0, 1}, a \in nums}
  IN  sent \cup {Corrupt(p) : p \in sent}

\* the emulator calls the sender's handlers in any order: A_output as in
\* Spec, A_timerinterrupt when the timer runs, A_input with any
\* acknowledgement B_input can send; what A transmits is not followed
SenderOutput ==
  /\ Len(accepted) < Budget \/ windowcount = WINDOWSIZE
  /\ LET data == Len(accepted) + 1
         s == A_outputOp(Sender, data)
     IN  /\ SetSender(s)
         /\ accepted' = IF s.eff.tx # <<>> THEN Append(accepted, data)
                        ELSE accepted
         /\ built' = IF s.eff.tx # <<>>
                     THEN [built EXCEPT ![A_nextseqnum] = data]
                     ELSE built
  /\ UNCHANGED <<bvars, TRACE, AtoB, BtoA, delivered>>

SenderInput ==
  /\ \E packet \in AcksFor(Junk), oob \in BOOLEAN :
       /\ packet.acknum \in SeqNums => oob
       /\ SetSender(A_inputOp(Sender, packet, oob))
  /\ UNCHANGED <<bvars, TRACE, AtoB, BtoA, accepted, delivered, built>>

SenderTimer ==
  /\ timer
  /\ SetSender(A_timerinterruptOp(Sender))
  /\ UNCHANGED <<bvars, TRACE, AtoB, BtoA, accepted, delivered, built>>

SenderNext == SenderOutput \/ SenderInput \/ SenderTimer

SenderSpec == Init /\ [][SenderNext]_vars

(* ------------------------------- claims -------------------------------- *)
Range(q) == {q[i] : i \in 1 .. Len(q)}

\* what B_input does with an arrival, for every value an unassigned
\* sendpkt.acknum can hold
B_inputResults(packet) ==
  {B_inputOp(Receiver, packet, TRACE, junk) : junk \in Junk}

\* the receiver's variables in a result of B_input
ReceiverVars(r) ==
  <<r.recv_buffer, r.received, r.B_windowbase, r.B_nextseqnum,
    r.already_received>>

\* C1: no message A_output accepted has been handed to layer 5 at B more
\* than once.
C1_AtMostOnce ==
  \A i, j \in 1 .. Len(delivered) :
    i # j => delivered[i] # delivered[j]

\* C2: the payloads B has delivered are a prefix of the messages A_output
\* accepted, in the same order.
C2_InOrderPrefix ==
  /\ Len(delivered) <= Len(accepted)
  /\ \A i \in 1 .. Len(delivered) : delivered[i] = accepted[i]

\* C3: with the timer and the channel fair, every message A_output accepted
\* is eventually handed to layer 5 at B.
C3_EventualDelivery ==
  \A m \in 1 .. MaxMsgs :
    (m \in Range(accepted)) ~> (m \in Range(delivered))

\* C4: an intact arrival at B_input that carries a payload B has already
\* delivered is never stored in the receive buffer.
C4_NoStaleBuffered ==
  AtoB # <<>> /\ Head(AtoB).payload \in Range(delivered) =>
    \A r \in B_inputResults(Head(AtoB)) :
      /\ r.received = received
      /\ r.recv_buffer = recv_buffer

\* C5: a call of A_timerinterrupt transmits at most one packet, and a packet
\* it transmits is the one built for the sequence number in oldest_unacked
\* when the timer fired.
C5_SelectiveRetransmit ==
  timer =>
    LET tx == A_timerinterruptOp(Sender).eff.tx
    IN  /\ Len(tx) <= 1
        /\ Len(tx) = 1 =>
             /\ tx[1].seqnum = oldest_unacked
             /\ tx[1].payload = built[oldest_unacked]

\* C6: at every trace level, B_input given a packet whose checksum does not
\* match sends no acknowledgement, delivers nothing and leaves the receiver's
\* variables as they were.
C6_CorruptedDropped ==
  AtoB # <<>> =>
    \A packet \in Arrivals(AtoB) :
      IsCorrupted(packet) =>
        \A r \in B_inputResults(packet) :
          /\ r.eff.tx = <<>>
          /\ r.eff.up = <<>>
          /\ ReceiverVars(r) = ReceiverVars(Receiver)

\* C7: at every trace level, B_input given a packet whose checksum matches
\* sends exactly one acknowledgement, and its acknum is the packet's seqnum.
C7_AlwaysAck ==
  AtoB # <<>> =>
    \A packet \in Arrivals(AtoB) :
      ~IsCorrupted(packet) =>
        \A r \in B_inputResults(packet) :
          /\ Len(r.eff.tx) = 1
          /\ r.eff.tx[1].acknum = packet.seqnum

\* C8: windowcount stays within 0 .. WINDOWSIZE and at most WINDOWSIZE
\* receiver slots are marked received.
C8_WindowBound ==
  /\ 0 <= windowcount
  /\ windowcount <= WINDOWSIZE
  /\ Cardinality({i \in DOMAIN received : received[i]}) <= WINDOWSIZE

\* a full sender window while the receiver holds a packet out of order
C8_Witness ==
  /\ windowcount = WINDOWSIZE
  /\ \E i \in Slots : received[i]

\* acknowledgements B_input can build for a received packet, as sent and
\* as corrupted by the channel
AckPkts == AcksFor(SeqNums)

\* the sender's window state and whether its timer runs
WindowState(s) ==
  <<s.windowbase, s.windowcount, s.A_nextseqnum, s.oldest_unacked,
    s.acked, s.in_window, s.timer>>

\* the sender as the next handler finds it
Settled(s) == [s EXCEPT !.eff = NoEffect]

\* C9: in every state the sender reaches, for every acknowledgement packet
\* (corrupted or not, for a number in or out of the window), A_input called
\* twice with it leaves the window state that one call leaves.
C9_IdempotentAck ==
  \A p \in AckPkts :
    LET once == A_inputOp(Sender, p, TRUE)
        twice == A_inputOp(Settled(once), p, TRUE)
    IN  WindowState(twice) = WindowState(once)

\* A_input has slid the window and has marked a packet behind an
\* unacknowledged one, so acknowledgements of every kind can arrive: for
\* the base, for the marked packet, for numbers that left the window
C9_Witness ==
  /\ windowbase # 0
  /\ windowcount >= 3
  /\ ~acked[SlotOf(windowbase)]
  /\ \E i \in 1 .. (windowcount - 1) :
       LET seq == (windowbase + i) % SEQSPACE
       IN  acked[SlotOf(seq)] /\ in_window[seq]

\* every call of a sender handler that can come next, with its effects
SenderCalls ==
  {A_outputOp(Sender, Len(accepted) + 1)}
  \cup (IF timer THEN {A_timerinterruptOp(Sender)} ELSE {})
  \cup {A_inputOp(Sender, p, oob) : p \in AcksFor(Junk), oob \in BOOLEAN}

C11_WindowFullRejected ==
  windowcount = WINDOWSIZE =>
    LET s == A_outputOp(Sender, Len(accepted) + 1)
    IN  /\ s.eff.tx = <<>>
        /\ s.eff.starts = 0
        /\ s.eff.stops = 0
        /\ s.eff.full = 1
        /\ Settled(s) = Sender

\* the window is full after it has slid, some of it acknowledged out of order
C11_Witness ==
  /\ windowcount = WINDOWSIZE
  /\ windowbase # 0
  /\ \E i \in Slots : acked[i]

\* the sender as A_init leaves it
A_init ==
  [buffer |-> [i \in Slots |-> ZeroPkt],
   acked |-> [i \in Slots |-> FALSE],
   windowbase |-> 0,
   A_nextseqnum |-> 0,
   windowcount |-> 0,
   oldest_unacked |-> -1,
   in_window |-> [i \in SeqNums |-> FALSE],
   timer |-> FALSE,
   eff |-> NoEffect]

\* k calls of A_output in a row, for the messages first, first + 1, ...
RECURSIVE OutputCalls(_, _, _)
OutputCalls(s, first, k) ==
  IF k = 0 THEN s
  ELSE OutputCalls(A_outputOp(s, first), first + 1, k - 1)

\* the acknowledgement B_input sends for `acknum`, its alternating bit `bit`
AckOf(acknum, bit) ==
  SendAck([Receiver EXCEPT !.B_nextseqnum = bit], acknum).eff.tx[1]

\* k calls of A_input in a row, for the acknowledgements a, a + 1, ...
RECURSIVE AckCalls(_, _, _)
AckCalls(s, a, k) ==
  IF k = 0 THEN s
  ELSE AckCalls(A_inputOp(s, AckOf(a % SEQSPACE, (a + 1) % 2), TRUE),
                a + 1, k - 1)

\* the sequence numbers of the packets in a list of transmissions
SeqnumsOf(tx) == [i \in 1 .. Len(tx) |-> tx[i].seqnum]

\* C12: from A_init, k calls of A_output in a row (1 <= k <= WINDOWSIZE)
\* transmit the packets 0, 1, ..., k-1 in that order and call starttimer
\* once; a run that has taken k messages, its base still 0 and no slot
\* marked, has the sender in the state so computed; the intact
\* acknowledgements 0 .. k-1, processed from it in that order, leave
\* windowbase = k % SEQSPACE, windowcount = 0, oldest_unacked = -1 and the
\* timer stopped.
C12_ScenarioA ==
  \A k \in 1 .. WINDOWSIZE :
    LET sent == OutputCalls(A_init, 1, k)
        done == AckCalls(Settled(sent), 0, k)
    IN  /\ SeqnumsOf(sent.eff.tx) = [i \in 1 .. k |-> i - 1]
        /\ sent.eff.starts = 1
        /\ sent.eff.stops = 0
        /\ ~sent.eff.fault
        /\ (/\ accepted = [i \in 1 .. k |-> i]
            /\ windowbase = 0
            /\ windowcount = k
            /\ acked = A_init.acked)
           => Sender = Settled(sent)
        /\ done.windowbase = k % SEQSPACE
        /\ done.windowcount = 0
        /\ done.oldest_unacked = -1
        /\ ~done.timer
        /\ ~done.eff.fault

\* the end of the scenario with a full window: six messages taken, all six
\* acknowledged, the timer stopped
C12_Witness ==
  /\ Len(accepted) = WINDOWSIZE
  /\ windowbase = WINDOWSIZE % SEQSPACE
  /\ windowcount = 0
  /\ oldest_unacked = -1
  /\ ~timer

\* C13: A_input given an acknowledgement whose checksum does not match
\* leaves every sender variable as it was, calls neither stoptimer nor
\* starttimer and transmits nothing.
C13_CorruptedAckIgnored ==
  \A p \in AcksFor(Junk), oob \in BOOLEAN :
    p.checksum # ComputeChecksum(p) =>
      LET s == A_inputOp(Sender, p, oob)
      IN  /\ s.eff = NoEffect
          /\ Settled(s) = Sender

\* the timer runs for an unacknowledged window base, so the corrupted
\* acknowledgement of the base is one the handler would otherwise act on
C13_Witness ==
  /\ timer
  /\ windowcount >= 1
  /\ oldest_unacked = windowbase
  /\ in_window[windowbase]
  /\ ~acked[SlotOf(windowbase)]

\* the sequence numbers windowbase .. windowbase + windowcount - 1
InSendWindow(seq) ==
  \E i \in 0 .. (windowcount - 1) : seq = (windowbase + i) % SEQSPACE

\* C14: A_input given an intact acknowledgement whose acknum is outside
\* windowbase .. windowbase + windowcount - 1 (every acknum where windowcount
\* is 0), or whose slot is marked acked, or whose in_window flag is not set,
\* leaves windowbase, windowcount, A_nextseqnum, oldest_unacked, acked,
\* in_window and the timer as they were and transmits nothing.
C14_DuplicateAckIgnored ==
  BtoA # <<>> =>
    \A p \in Arrivals(BtoA), oob \in BOOLEAN :
      (/\ ~IsCorrupted(p)
       /\ \/ ~InSendWindow(p.acknum)
          \/ acked[SlotOf(p.acknum)]
          \/ ~in_window[p.acknum])
      => LET s == A_inputOp(Sender, p, oob)
         IN  /\ WindowState(s) = WindowState(Sender)
             /\ s.eff = NoEffect

\* the payloads B_input hands up when its delivery loop runs over exactly
\* the packets stored for the sequence numbers from `seq` on, given that the
\* packet for `seq` is `first`
RECURSIVE BufferedRun(_, _, _)
BufferedRun(first, seq, n) ==
  LET next == (seq + 1) % SEQSPACE
      slot == SlotOf(next)
  IN  IF /\ n > 1
         /\ received[slot]
         /\ recv_buffer[slot].seqnum = next
      THEN <<first.payload>> \o BufferedRun(recv_buffer[slot], next, n - 1)
      ELSE <<first.payload>>

\* C15: an intact in-window packet whose seqnum is not B_windowbase is
\* stored in the receive buffer, nothing is delivered and B_windowbase stays;
\* an intact packet for B_windowbase makes that call of B_input deliver it
\* and then exactly the packets stored for the sequence numbers that follow,
\* in order, and B_windowbase ends at the first number not yet received.
C15_BufferThenDeliver ==
  AtoB # <<>> =>
    \A packet \in Arrivals(AtoB) :
      (~IsCorrupted(packet) /\ SeqInWindow(Receiver, packet.seqnum)) =>
        \A r \in B_inputResults(packet) :
          IF packet.seqnum # B_windowbase
          THEN /\ r.eff.up = <<>>
               /\ r.B_windowbase = B_windowbase
               /\ r.received[SlotOf(packet.seqnum)]
               /\ r.recv_buffer[SlotOf(packet.seqnum)].seqnum = packet.seqnum
          ELSE /\ r.eff.up = BufferedRun(packet, B_windowbase, WINDOWSIZE)
               /\ r.B_windowbase =
                    (B_windowbase + Len(r.eff.up)) % SEQSPACE
               /\ ~(/\ r.received[SlotOf(r.B_windowbase)]
                    /\ r.recv_buffer[SlotOf(r.B_windowbase)].seqnum
                         = r.B_windowbase)

\* C16: for every sequence number in windowbase .. windowbase+windowcount-1
\* the slot seq % WINDOWSIZE of buffer[] holds the packet built for it, and
\* no two sequence numbers of the window share a slot.
C16_SlotUnambiguous ==
  /\ \A seq \in SeqNums :
       InSendWindow(seq) =>
         /\ buffer[SlotOf(seq)].seqnum = seq
         /\ buffer[SlotOf(seq)].payload = built[seq]
  /\ \A a, b \in SeqNums :
       (InSendWindow(a) /\ InSendWindow(b) /\ a # b) => SlotOf(a) # SlotOf(b)

\* the sequence numbers a call of A_input moved windowbase past, `s` being
\* the sender after the call
SlidPast(s) ==
  {(windowbase + i) % SEQSPACE : i \in 0 .. (windowcount - s.windowcount - 1)}

\* C17: a call of A_input moves windowbase past a sequence number whose
\* packet is the one in its slot, and whose slot no acknowledgement has
\* marked since A_output sent it, only if the acknowledgement it is called
\* with carries that number.
C17_SlideOnlyAcked ==
  BtoA # <<>> =>
    \A p \in Arrivals(BtoA), oob \in BOOLEAN :
      \A seq \in SlidPast(A_inputOp(Sender, p, oob)) :
        (buffer[SlotOf(seq)].seqnum = seq /\ ~acked[SlotOf(seq)])
          => p.acknum = seq

\* C18: between handlers oldest_unacked is the first sequence number from
\* windowbase on that is in the window with its slot not marked acked, and
\* -1 when there is none; it is never a number outside the window.
C18_OldestTracked ==
  /\ oldest_unacked = find_oldest_unacked(Sender).oldest_unacked
  /\ oldest_unacked # -1 => InSendWindow(oldest_unacked)

\* C19: B_input given an intact packet whose seqnum is B_windowbase hands
\* that packet's payload to layer 5 first and moves B_windowbase on.
C19_BaseAccepted ==
  AtoB # <<>> =>
    \A packet \in Arrivals(AtoB) :
      (~IsCorrupted(packet) /\ packet.seqnum = B_windowbase) =>
        \A r \in B_inputResults(packet) :
          /\ Len(r.eff.up) >= 1
          /\ r.eff.up[1] = packet.payload
          /\ r.B_windowbase # B_windowbase

\* C20: between handlers, if a sequence number of the window has its slot
\* not marked acked, the timer runs.
C20_NoStall ==
  (\E seq \in SeqNums : InSendWindow(seq) /\ ~acked[SlotOf(seq)]) => timer

\* the timer runs after A_input took the acknowledgement of the packet it
\* was timing: the base left the window and a packet behind an acknowledged
\* one is outstanding
C20_Witness ==
  /\ timer
  /\ windowbase # 0
  /\ \E i, j \in 0 .. (windowcount - 1) :
       /\ i < j
       /\ acked[SlotOf((windowbase + i) % SEQSPACE)]
       /\ ~acked[SlotOf((windowbase + j) % SEQSPACE)]

====
